---- MODULE Spec2Model ----
(***************************************************************************)
(* Model of homework.py: the fitness-tracker calculators (Training,        *)
(* Running, SportsWalking, Swimming), the InfoMessage formatter, the       *)
(* read_package dispatcher, main and the __main__ driver loop.             *)
(*                                                                         *)
(* Numbers.  Python computes in int and IEEE-754 double.  The model        *)
(* computes in exact rational arithmetic: a number is a record             *)
(* [n |-> numerator, d |-> denominator] in lowest terms with d > 0.        *)
(* Representation error of doubles (157.50000000000003 for 157.5) is below *)
(* the model's resolution; division by zero, floor division, operator      *)
(* precedence and the 3-decimal rendering are modelled as Python does      *)
(* them.                                                                   *)
(*                                                                         *)
(* Text.  The Cyrillic literals of get_message are transliterated to ASCII *)
(* (string literals of the module language are ASCII).                     *)
(***************************************************************************)
EXTENDS Integers, Sequences, FiniteSets, TLC

(***************************************************************************)
(* Exact rational arithmetic                                               *)
(***************************************************************************)
\* The operators below bind their arguments to values before using them
\* (x \in {x0}), so that an argument expression is evaluated once however
\* often the body refers to it; get_message and main do the same.
Abs(x) == IF x < 0 THEN -x ELSE x

RECURSIVE GCD(_, _)
GCD(a0, b0) ==
    CHOOSE g \in { IF b = 0 THEN Abs(a) ELSE GCD(b, a % b) :
                     a \in {a0}, b \in {b0} } : TRUE

\* the rational nn/dd (dd # 0) in lowest terms with a positive denominator
Rat(nn0, dd0) ==
    CHOOSE r \in { [n |-> (IF dd < 0 THEN -1 ELSE 1) * (nn \div g),
                    d |-> (IF dd < 0 THEN -1 ELSE 1) * (dd \div g)] :
                     nn \in {nn0}, dd \in {dd0}, g \in {GCD(nn0, dd0)} } : TRUE

I(k) == [n |-> k, d |-> 1]

\* a * b, cancelling across the factors before multiplying
RMul(a0, b0) ==
    CHOOSE r \in { Rat((a.n \div GCD(a.n, b.d)) * (b.n \div GCD(b.n, a.d)),
                       (a.d \div GCD(b.n, a.d)) * (b.d \div GCD(a.n, b.d))) :
                     a \in {a0}, b \in {b0} } : TRUE

\* a / b for b # 0
RDiv(a0, b0) ==
    CHOOSE r \in { RMul(a, IF b.n < 0 THEN [n |-> -b.d, d |-> -b.n]
                                      ELSE [n |-> b.d, d |-> b.n]) :
                     a \in {a0}, b \in {b0} } : TRUE

RAdd(a0, b0) ==
    CHOOSE r \in { Rat(a.n * (b.d \div GCD(a.d, b.d))
                         + b.n * (a.d \div GCD(a.d, b.d)),
                       (a.d \div GCD(a.d, b.d)) * b.d) :
                     a \in {a0}, b \in {b0} } : TRUE

RSub(a0, b0) ==
    CHOOSE r \in { RAdd(a, [n |-> -b.n, d |-> b.d]) :
                     a \in {a0}, b \in {b0} } : TRUE

RLess(a, b) == RSub(a, b).n < 0

IsZero(a) == a.n = 0

\* Python's a // b on numbers: the floor of the quotient (b # 0)
RFloorDiv(a, b) ==
    CHOOSE r \in { I(q.n \div q.d) : q \in {RDiv(a, b)} } : TRUE

(***************************************************************************)
(* Results of calls: a value or a raised exception                         *)
(***************************************************************************)
Ok(v) == [exc |-> "None", val |-> v]

Raise(e) == [exc |-> e, val |-> I(0)]

(***************************************************************************)
(* class Training and its subclasses.  An object is a record: cls is the   *)
(* class, the other fields are the instance attributes set by __init__.    *)
(***************************************************************************)
M_IN_KM == 1000

\* the class attribute LEN_STEP as looked up on self: Swimming overrides it
LEN_STEP(self) == IF self.cls = "Swimming" THEN Rat(138, 100) ELSE Rat(65, 100)

\* Training.__init__
Training_init(cls, action, duration, weight) ==
    [cls |-> cls, action |-> action, duration |-> duration, weight |-> weight]

\* SportsWalking.__init__
SportsWalking_init(action, duration, weight, height) ==
    [cls |-> "SportsWalking", action |-> action, duration |-> duration,
     weight |-> weight, height |-> height]

\* a constructor that stores the last two arguments in each other's place
Swimming_init_swapped(action, duration, weight, length_pool, count_pool) ==
    [cls |-> "Swimming", action |-> action, duration |-> duration,
     weight |-> weight, length_pool |-> count_pool, count_pool |-> length_pool]

\* Swimming.__init__
Swimming_init(action, duration, weight, length_pool, count_pool) ==
    [cls |-> "Swimming", action |-> action, duration |-> duration,
     weight |-> weight, length_pool |-> length_pool, count_pool |-> count_pool]

\* Training.get_distance: action * LEN_STEP / M_IN_KM, never raises
get_distance(self) ==
    Ok(RDiv(RMul(self.action, LEN_STEP(self)), I(M_IN_KM)))

\* Training.get_mean_speed: get_distance() / duration
Training_get_mean_speed(self) ==
    IF IsZero(self.duration)
    THEN Raise("ZeroDivisionError")
    ELSE Ok(RDiv(get_distance(self).val, self.duration))

\* a speed that answers 0 for a zero duration instead of dividing
Swimming_get_mean_speed_guarded(self) ==
    LET cal_swm_1 == RMul(self.length_pool, self.count_pool)
    IN  IF IsZero(self.duration)
        THEN Ok(I(0))
        ELSE Ok(RDiv(RDiv(cal_swm_1, I(M_IN_KM)), self.duration))

\* Swimming.get_mean_speed: length_pool * count_pool / M_IN_KM / duration
Swimming_get_mean_speed(self) ==
    LET cal_swm_1 == RMul(self.length_pool, self.count_pool)
    IN  IF IsZero(self.duration)
        THEN Raise("ZeroDivisionError")
        ELSE Ok(RDiv(RDiv(cal_swm_1, I(M_IN_KM)), self.duration))

\* a lookup that misses the Swimming override
get_mean_speed_base(self) == Training_get_mean_speed(self)

\* self.get_mean_speed(): dispatch on the class of self
get_mean_speed(self) ==
    IF self.cls = "Swimming" THEN Swimming_get_mean_speed(self)
                             ELSE Training_get_mean_speed(self)

\* the subtraction taken before the multiplication: cf_run_1 * (speed - cf_run_2)
Running_get_spent_calories_grouped(self) ==
    LET cf_run_1 == I(18)
        cf_run_2 == I(20)
        ms == get_mean_speed(self)
        cal_run_1 == RMul(RMul(cf_run_1, RSub(ms.val, cf_run_2)), self.weight)
    IN  IF ms.exc # "None"
        THEN ms
        ELSE Ok(RMul(RDiv(cal_run_1, I(M_IN_KM)), RMul(self.duration, I(60))))

\* Running.get_spent_calories
Running_get_spent_calories(self) ==
    LET cf_run_1 == I(18)
        cf_run_2 == I(20)
        ms == get_mean_speed(self)
        cal_run_1 == RMul(RSub(RMul(cf_run_1, ms.val), cf_run_2), self.weight)
    IN  IF ms.exc # "None"
        THEN ms
        ELSE Ok(RMul(RDiv(cal_run_1, I(M_IN_KM)), RMul(self.duration, I(60))))

\* true division where the code has floor division
SportsWalking_get_spent_calories_truediv(self) ==
    LET cf_wlk_1 == Rat(35, 1000)
        cf_wlk_2 == Rat(29, 1000)
        cal_wlk_1 == RMul(cf_wlk_1, self.weight)
        ms == get_mean_speed(self)
        cal_wlk_2 == RDiv(RMul(ms.val, ms.val), self.height)
        cal_wlk_3 == RMul(RMul(cal_wlk_2, cf_wlk_2), self.weight)
    IN  IF ms.exc # "None"
        THEN ms
        ELSE IF IsZero(self.height)
        THEN Raise("ZeroDivisionError")
        ELSE Ok(RMul(RMul(RAdd(cal_wlk_1, cal_wlk_3), self.duration), I(60)))

\* SportsWalking.get_spent_calories; ** binds tighter than //
SportsWalking_get_spent_calories(self) ==
    LET cf_wlk_1 == Rat(35, 1000)
        cf_wlk_2 == Rat(29, 1000)
        cal_wlk_1 == RMul(cf_wlk_1, self.weight)
        ms == get_mean_speed(self)
        cal_wlk_2 == RFloorDiv(RMul(ms.val, ms.val), self.height)
        cal_wlk_3 == RMul(RMul(cal_wlk_2, cf_wlk_2), self.weight)
    IN  IF ms.exc # "None"
        THEN ms
        ELSE IF IsZero(self.height)
        THEN Raise("ZeroDivisionError")
        ELSE Ok(RMul(RMul(RAdd(cal_wlk_1, cal_wlk_3), self.duration), I(60)))

\* Swimming.get_spent_calories
Swimming_get_spent_calories(self) ==
    LET cf_swm_1 == Rat(11, 10)
        cf_swm_2 == I(2)
        ms == get_mean_speed(self)
    IN  IF ms.exc # "None"
        THEN ms
        ELSE Ok(RMul(RMul(RAdd(ms.val, cf_swm_1), cf_swm_2), self.weight))

\* self.get_spent_calories(): dispatch on the class of self
get_spent_calories(self) ==
    CASE self.cls = "Running"       -> Running_get_spent_calories(self)
      [] self.cls = "SportsWalking" -> SportsWalking_get_spent_calories(self)
      [] self.cls = "Swimming"      -> Swimming_get_spent_calories(self)

(***************************************************************************)
(* class InfoMessage                                                       *)
(***************************************************************************)
\* InfoMessage.__init__
InfoMessage_init(training_type, duration, distance, speed, calories) ==
    [training_type |-> training_type, duration |-> duration,
     distance |-> distance, speed |-> speed, calories |-> calories]

\* Training.show_training_info: the arguments are evaluated left to right,
\* the first exception propagates and no InfoMessage is built
show_training_info(self) ==
    LET dist == get_distance(self)
        ms   == get_mean_speed(self)
        cal  == get_spent_calories(self)
    IN  IF ms.exc # "None" THEN ms
        ELSE IF cal.exc # "None" THEN cal
        ELSE Ok(InfoMessage_init(self.cls, self.duration, dist.val,
                                 ms.val, cal.val))

\* f'{x:.3f}': x rounded to thousandths, ties to even, with a leading "-"
\* for negative x, and always three digits after the point
Fmt3(x) ==
    LET a   == Abs(x.n)
        fl  == (a * 1000) \div x.d
        rem == (a * 1000) % x.d
        q   == IF 2 * rem > x.d \/ (2 * rem = x.d /\ fl % 2 = 1)
               THEN fl + 1 ELSE fl
        fr  == q % 1000
        pad == IF fr < 10 THEN "00" ELSE IF fr < 100 THEN "0" ELSE ""
    IN  (IF x.n < 0 THEN "-" ELSE "") \o ToString(q \div 1000) \o "."
        \o pad \o ToString(fr)

\* InfoMessage.get_message (literals transliterated)
get_message(self0) ==
    CHOOSE s \in {
        "Tip trenirovki: " \o self.training_type \o "; "
        \o "Dlitelnost: " \o Fmt3(self.duration) \o " ch.; "
        \o "Distantsiya: " \o Fmt3(self.distance) \o " km; "
        \o "Sr. skorost: " \o Fmt3(self.speed) \o " km/ch; "
        \o "Potracheno kkal: " \o Fmt3(self.calories) \o "." :
          self \in {self0} } : TRUE

(***************************************************************************)
(* read_package                                                            *)
(***************************************************************************)
\* the keys of training_type_dict
training_type_dict == [SWM |-> "Swimming", RUN |-> "Running",
                       WLK |-> "SportsWalking"]

\* number of positional parameters of cls.__init__ besides self
Arity(cls) ==
    CASE cls = "Running"       -> 3
      [] cls = "SportsWalking" -> 4
      [] cls = "Swimming"      -> 5

\* a constructor that ignores surplus arguments
Construct_lenient(cls, data) ==
    IF Len(data) < Arity(cls) THEN Raise("TypeError")
    ELSE CASE cls = "Running" ->
                Ok(Training_init("Running", data[1], data[2], data[3]))
           [] cls = "SportsWalking" ->
                Ok(SportsWalking_init(data[1], data[2], data[3], data[4]))
           [] cls = "Swimming" ->
                Ok(Swimming_init(data[1], data[2], data[3], data[4], data[5]))

\* cls(*data): TypeError unless len(data) matches the signature of __init__
Construct(cls, data) ==
    IF Len(data) # Arity(cls) THEN Raise("TypeError")
    ELSE CASE cls = "Running" ->
                Ok(Training_init("Running", data[1], data[2], data[3]))
           [] cls = "SportsWalking" ->
                Ok(SportsWalking_init(data[1], data[2], data[3], data[4]))
           [] cls = "Swimming" ->
                Ok(Swimming_init(data[1], data[2], data[3], data[4], data[5]))

\* a dispatcher that falls back to Running for an unknown code
read_package_default(workout_type, data) ==
    LET cls == IF workout_type \in DOMAIN training_type_dict
               THEN training_type_dict[workout_type] ELSE "Running"
        r   == Construct(cls, data)
    IN  [exc |-> r.exc, val |-> r.val, called |-> cls]

\* read_package: training_type_dict[workout_type](*data).  called is the
\* class whose constructor the call invokes, "None" when the dictionary
\* lookup raises before any call
read_package(workout_type, data) ==
    IF workout_type \notin DOMAIN training_type_dict
    THEN [exc |-> "KeyError", val |-> I(0), called |-> "None"]
    ELSE LET cls == training_type_dict[workout_type]
             r   == Construct(cls, data)
         IN  [exc |-> r.exc, val |-> r.val, called |-> cls]

\* a main that prints the line twice
main_twice(self, out) ==
    CHOOSE m \in {
        IF r.exc # "None"
        THEN [exc |-> r.exc, out |-> out]
        ELSE [exc |-> "None",
              out |-> Append(Append(out, get_message(r.val)),
                             get_message(r.val))] :
          r \in {show_training_info(self)} } : TRUE

\* main: print(training.show_training_info().get_message()); out is stdout
main(self, out) ==
    CHOOSE m \in {
        IF r.exc # "None"
        THEN [exc |-> r.exc, out |-> out]
        ELSE [exc |-> "None", out |-> Append(out, get_message(r.val))] :
          r \in {show_training_info(self)} } : TRUE

(***************************************************************************)
(* Bounds and input sets                                                   *)
(***************************************************************************)
\* longest argument list handed to read_package
MaxArgs == 6

\* longest batch of packages the driver is run on
MaxBatch == 3

Codes == {"SWM", "RUN", "WLK", "XYZ"}

Actions == {I(720), I(9000), I(15000)}

Durations == {I(0), Rat(1, 2), I(1), I(2)}

Weights == {I(75), I(80)}

\* height of a walker, or length of the pool
Fourths == {I(0), I(25), I(180)}

\* count of pools
Fifths == {I(0), I(40)}

Extras == {I(1)}

\* values allowed at position k of an argument list
ArgSet(k) ==
    CASE k = 1 -> Actions
      [] k = 2 -> Durations
      [] k = 3 -> Weights
      [] k = 4 -> Fourths
      [] k = 5 -> Fifths
      [] OTHER -> Extras

\* the argument lists of length len
RECURSIVE ListsOfLen(_)
ListsOfLen(len) ==
    IF len = 0 THEN { <<>> }
    ELSE { Append(d, x) : d \in ListsOfLen(len - 1), x \in ArgSet(len) }

DataLists == UNION { ListsOfLen(len) : len \in 0..MaxArgs }

\* the packages of the driver, and packages that fail
ExamplePackages ==
    << <<"SWM", <<I(720), I(1), I(80), I(25), I(40)>> >>,
       <<"RUN", <<I(15000), I(1), I(75)>> >>,
       <<"WLK", <<I(9000), I(1), I(75), I(180)>> >> >>

PackagePool ==
    { ExamplePackages[k] : k \in 1..3 }
    \cup { <<"XYZ", <<I(720), I(1), I(80)>> >>,
           <<"RUN", <<I(15000), I(1)>> >>,
           <<"RUN", <<I(15000), I(0), I(75)>> >>,
           <<"SWM", <<I(720), I(0), I(80), I(25), I(40)>> >> }

Batches == UNION { [1..len -> PackagePool] : len \in 0..MaxBatch }

(***************************************************************************)
(* State                                                                   *)
(***************************************************************************)
VARIABLES
    training,      \* the caller's calculator (the last one read_package returned)
    info,          \* the caller's InfoMessage (the last one show_training_info returned)
    text,          \* the last text get_message returned
    ret,           \* the value returned by the last call
    exc,           \* the exception raised by the last call, "None" if it returned
    op,            \* the last call
    called,        \* the class whose constructor the last read_package invoked
    workout_type,  \* arguments of the last read_package
    data,
    packages,      \* the driver's list of packages
    idx,           \* position of the driver's for loop in packages
    out,           \* lines printed to stdout
    pc             \* where the driver is

vars == <<training, info, text, ret, exc, op, called, workout_type, data,
          packages, idx, out, pc>>

driverVars == <<packages, idx, out, pc>>

NoTraining == [cls |-> "None"]

NoInfo == [training_type |-> "None"]

\* Python's None as the value of a call
NoneValue == [none |-> TRUE]

RetNone == [kind |-> "None", v |-> NoneValue]

RetOf(kind, r) == IF r.exc = "None" THEN [kind |-> kind, v |-> r.val] ELSE RetNone

(***************************************************************************)
(* A caller of the module's functions and methods                          *)
(***************************************************************************)
Init ==
    /\ training = NoTraining
    /\ info = NoInfo
    /\ text = ""
    /\ ret = RetNone
    /\ exc = "None"
    /\ op = "start"
    /\ called = "None"
    /\ workout_type = ""
    /\ data = <<>>
    /\ packages = <<>>
    /\ idx = 1
    /\ out = <<>>
    /\ pc = "caller"

\* training = read_package(wt, d), the caller's first call
ReadPackage ==
    /\ pc = "caller"
    /\ op = "start"
    /\ \E wt \in Codes, d \in DataLists :
          LET r == read_package(wt, d)
          IN  /\ workout_type' = wt
              /\ data' = d
              /\ exc' = r.exc
              /\ called' = r.called
              /\ ret' = RetOf("Training", r)
              /\ training' = IF r.exc = "None" THEN r.val ELSE training
    /\ op' = "read_package"
    /\ UNCHANGED <<info, text, driverVars>>

\* training.get_distance()
GetDistance ==
    /\ pc = "caller"
    /\ training # NoTraining
    /\ LET r == get_distance(training)
       IN  exc' = r.exc /\ ret' = RetOf("float", r)
    /\ op' = "get_distance"
    /\ UNCHANGED <<training, info, text, called, workout_type, data, driverVars>>

\* training.get_mean_speed()
GetMeanSpeed ==
    /\ pc = "caller"
    /\ training # NoTraining
    /\ LET r == get_mean_speed(training)
       IN  exc' = r.exc /\ ret' = RetOf("float", r)
    /\ op' = "get_mean_speed"
    /\ UNCHANGED <<training, info, text, called, workout_type, data, driverVars>>

\* training.get_spent_calories()
GetSpentCalories ==
    /\ pc = "caller"
    /\ training # NoTraining
    /\ LET r == get_spent_calories(training)
       IN  exc' = r.exc /\ ret' = RetOf("float", r)
    /\ op' = "get_spent_calories"
    /\ UNCHANGED <<training, info, text, called, workout_type, data, driverVars>>

\* a show_training_info that resets the movement counter of self after
\* reporting it
ShowTrainingInfo_resetting ==
    /\ pc = "caller"
    /\ training # NoTraining
    /\ LET r == show_training_info(training)
       IN  /\ exc' = r.exc
           /\ ret' = RetOf("InfoMessage", r)
           /\ info' = IF r.exc = "None" THEN r.val ELSE info
           /\ training' = IF r.exc = "None"
                          THEN [training EXCEPT !.action = I(0)]
                          ELSE training
    /\ op' = "show_training_info"
    /\ UNCHANGED <<text, called, workout_type, data, driverVars>>

\* info = training.show_training_info()
ShowTrainingInfo ==
    /\ pc = "caller"
    /\ training # NoTraining
    /\ LET r == show_training_info(training)
       IN  /\ exc' = r.exc
           /\ ret' = RetOf("InfoMessage", r)
           /\ info' = IF r.exc = "None" THEN r.val ELSE info
    /\ op' = "show_training_info"
    /\ UNCHANGED <<training, text, called, workout_type, data, driverVars>>

\* text = info.get_message()
GetMessage ==
    /\ pc = "caller"
    /\ info # NoInfo
    /\ text' = get_message(info)
    /\ ret' = [kind |-> "str", v |-> [str |-> get_message(info)]]
    /\ exc' = "None"
    /\ op' = "get_message"
    /\ UNCHANGED <<training, info, called, workout_type, data, driverVars>>

Next ==
    \/ ReadPackage
    \/ GetDistance
    \/ GetMeanSpeed
    \/ GetSpentCalories
    \/ ShowTrainingInfo
    \/ GetMessage

Spec == Init /\ [][Next]_vars

(***************************************************************************)
(* The __main__ driver: for workout_type, data in packages: ...            *)
(***************************************************************************)
DriverInit ==
    /\ training = NoTraining
    /\ info = NoInfo
    /\ text = ""
    /\ ret = RetNone
    /\ exc = "None"
    /\ op = "start"
    /\ called = "None"
    /\ workout_type = ""
    /\ data = <<>>
    /\ packages \in Batches
    /\ idx = 1
    /\ out = <<>>
    /\ pc = "read"

\* a loop that catches the exception and goes on with the next package
DriverRead_skipping ==
    /\ pc = "read"
    /\ idx <= Len(packages)
    /\ LET wt == packages[idx][1]
           d  == packages[idx][2]
           r  == read_package(wt, d)
       IN  /\ workout_type' = wt
           /\ data' = d
           /\ exc' = r.exc
           /\ called' = r.called
           /\ ret' = RetOf("Training", r)
           /\ training' = IF r.exc = "None" THEN r.val ELSE training
           /\ pc' = IF r.exc = "None" THEN "main" ELSE "read"
           /\ idx' = IF r.exc = "None" THEN idx ELSE idx + 1
    /\ op' = "read_package"
    /\ UNCHANGED <<info, text, packages, out>>

\* training = read_package(workout_type, data); an exception is not caught
\* and ends the program
DriverRead ==
    /\ pc = "read"
    /\ idx <= Len(packages)
    /\ LET wt == packages[idx][1]
           d  == packages[idx][2]
           r  == read_package(wt, d)
       IN  /\ workout_type' = wt
           /\ data' = d
           /\ exc' = r.exc
           /\ called' = r.called
           /\ ret' = RetOf("Training", r)
           /\ training' = IF r.exc = "None" THEN r.val ELSE training
           /\ pc' = IF r.exc = "None" THEN "main" ELSE "crashed"
    /\ op' = "read_package"
    /\ UNCHANGED <<info, text, packages, idx, out>>

\* main(training), then the loop moves to the next package; an exception is
\* not caught and ends the program
DriverMain ==
    /\ pc = "main"
    /\ \E s \in {show_training_info(training)}, r \in {main(training, out)} :
           /\ exc' = r.exc
           /\ out' = r.out
           /\ info' = IF s.exc = "None" THEN s.val ELSE info
           /\ text' = IF s.exc = "None" THEN get_message(s.val) ELSE text
           /\ pc' = IF r.exc = "None" THEN "read" ELSE "crashed"
           /\ idx' = IF r.exc = "None" THEN idx + 1 ELSE idx
    /\ ret' = RetNone
    /\ op' = "main"
    /\ UNCHANGED <<training, called, workout_type, data, packages>>

\* the list is exhausted: the program ends normally
DriverExit ==
    /\ pc = "read"
    /\ idx > Len(packages)
    /\ pc' = "done"
    /\ UNCHANGED <<training, info, text, ret, exc, op, called, workout_type,
                   data, packages, idx, out>>

DriverNext ==
    \/ DriverRead
    \/ DriverMain
    \/ DriverExit

DriverSpec == DriverInit /\ [][DriverNext]_vars

\* the interpreter runs the loop to its end: a step that can be taken is taken
FairDriverSpec == DriverSpec /\ WF_vars(DriverNext)

(***************************************************************************)
(* Properties of read_package                                              *)
(***************************************************************************)
KnownCodes == {"SWM", "RUN", "WLK"}

\* the constructor arity the argument list must have for a known code
ArityOfCode(wt) ==
    CASE wt = "RUN" -> 3
      [] wt = "WLK" -> 4
      [] wt = "SWM" -> 5

\* the attributes an object of the class carries
FieldsOf(cls) ==
    CASE cls = "Running"       -> {"cls", "action", "duration", "weight"}
      [] cls = "SportsWalking" -> {"cls", "action", "duration", "weight",
                                   "height"}
      [] cls = "Swimming"      -> {"cls", "action", "duration", "weight",
                                   "length_pool", "count_pool"}

\* C1 as stated: for every code other than SWM, RUN, WLK and every argument
\* list, read_package fails with an "UnsupportedWorkoutType" error, returns
\* nothing and calls no constructor.
C1_Original ==
    (op = "read_package" /\ workout_type \notin KnownCodes)
        => /\ exc = "UnsupportedWorkoutType"
           /\ called = "None"
           /\ ret.kind = "None"

\* C1 amended: for every code other than SWM, RUN, WLK and every argument
\* list, read_package fails with a KeyError raised to the caller, returns
\* nothing and calls no constructor.
C1_UnknownCodeRaisesKeyError ==
    (op = "read_package" /\ workout_type \notin KnownCodes)
        => /\ exc = "KeyError"
           /\ called = "None"
           /\ ret.kind = "None"
           /\ training = NoTraining

\* an unknown code with an argument list a Running constructor would accept
C1_Witness ==
    /\ op = "read_package"
    /\ workout_type = "XYZ"
    /\ Len(data) = 3
    /\ exc = "KeyError"

\* C4 as stated: for a known code and an argument list whose length is not
\* the constructor's arity, read_package fails with an "InvalidInput" error
\* and returns no calculator.
C4_Original ==
    (/\ op = "read_package"
     /\ workout_type \in KnownCodes
     /\ Len(data) # ArityOfCode(workout_type))
        => /\ exc = "InvalidInput"
           /\ ret.kind = "None"

\* C4 amended: for a known code and an argument list whose length is not
\* the constructor's arity (3 for RUN, 4 for WLK, 5 for SWM), read_package
\* fails with a TypeError and returns no calculator; every calculator the
\* caller holds has all the attributes of its class.
C4_WrongArityRaisesTypeError ==
    /\ (/\ op = "read_package"
        /\ workout_type \in KnownCodes
        /\ Len(data) # ArityOfCode(workout_type))
           => /\ exc = "TypeError"
              /\ ret.kind = "None"
              /\ training = NoTraining
    /\ training # NoTraining => DOMAIN training = FieldsOf(training.cls)

\* a Running package with one argument too many (a walker's list)
C4_Witness ==
    /\ op = "read_package"
    /\ workout_type = "RUN"
    /\ Len(data) = 4
    /\ exc = "TypeError"

\* C5: read_package maps RUN, WLK, SWM to Running, SportsWalking, Swimming
\* and assigns the argument list positionally: action, duration, weight,
\* then height for WLK, then pool length and lap count for SWM.
C5_PositionalDispatch ==
    /\ (op = "read_package" /\ exc = "None") =>
          /\ workout_type \in KnownCodes
          /\ ret.kind = "Training"
          /\ training = ret.v
          /\ workout_type = "RUN" =>
                ret.v = [cls |-> "Running", action |-> data[1],
                         duration |-> data[2], weight |-> data[3]]
          /\ workout_type = "WLK" =>
                ret.v = [cls |-> "SportsWalking", action |-> data[1],
                         duration |-> data[2], weight |-> data[3],
                         height |-> data[4]]
          /\ workout_type = "SWM" =>
                ret.v = [cls |-> "Swimming", action |-> data[1],
                         duration |-> data[2], weight |-> data[3],
                         length_pool |-> data[4], count_pool |-> data[5]]
    /\ (/\ op = "read_package"
        /\ workout_type \in KnownCodes
        /\ Len(data) = ArityOfCode(workout_type)) => exc = "None"

\* a Swimming calculator whose pool length and lap count differ
C5_Witness ==
    /\ op = "read_package"
    /\ exc = "None"
    /\ workout_type = "SWM"
    /\ training.cls = "Swimming"
    /\ training.length_pool = I(25)
    /\ training.count_pool = I(40)

(***************************************************************************)
(* Zero duration                                                           *)
(***************************************************************************)
SummaryOps == {"get_mean_speed", "get_spent_calories", "show_training_info"}

\* C3 as stated: on a calculator with duration 0, get_mean_speed,
\* get_spent_calories and show_training_info fail with an "InvalidInput"
\* error and return nothing.
C3_Original ==
    (op \in SummaryOps /\ IsZero(training.duration))
        => /\ exc = "InvalidInput"
           /\ ret.kind = "None"

\* C3 amended: on a Running, SportsWalking or Swimming calculator with
\* duration 0, get_mean_speed, get_spent_calories and show_training_info
\* fail with a ZeroDivisionError; no speed is returned and no summary is
\* ever produced.
C3_ZeroDurationRaises ==
    /\ (op \in SummaryOps /\ IsZero(training.duration))
          => /\ exc = "ZeroDivisionError"
             /\ ret.kind = "None"
    /\ (training # NoTraining /\ IsZero(training.duration))
          => /\ info = NoInfo
             /\ text = ""

\* show_training_info has been called on a Swimming calculator of duration 0
C3_Witness ==
    /\ op = "show_training_info"
    /\ training.cls = "Swimming"
    /\ IsZero(training.duration)
    /\ exc = "ZeroDivisionError"

(***************************************************************************)
(* The formulas of the three workouts                                      *)
(***************************************************************************)
Positive(x) == x.n > 0

\* the integer k with k <= q < k + 1, for 0 <= q
MaxFloor == 1000

FloorOf(q) ==
    CHOOSE k \in 0..MaxFloor : ~RLess(q, I(k)) /\ RLess(q, I(k + 1))

\* the number a call computing or reporting calories has produced
ReportedCalories == IF op = "show_training_info" THEN info.calories ELSE ret.v

\* C6: for a Swimming workout with duration > 0 the mean speed of the
\* summary is (pool length x lap count / 1000) / duration, whatever the
\* stroke count, and the distance is action x 1.38 / 1000.
C6_SwimmingSpeedFromPool ==
    /\ (/\ op = "show_training_info"
        /\ training.cls = "Swimming"
        /\ Positive(training.duration))
          => /\ exc = "None"
             /\ info.training_type = "Swimming"
             /\ RMul(RMul(info.speed, training.duration), I(1000))
                  = RMul(training.length_pool, training.count_pool)
             /\ RMul(info.distance, I(100000)) = RMul(training.action, I(138))
    /\ (/\ op = "get_mean_speed"
        /\ training.cls = "Swimming"
        /\ Positive(training.duration))
          => /\ exc = "None"
             /\ RMul(RMul(ret.v, training.duration), I(1000))
                  = RMul(training.length_pool, training.count_pool)

\* a Swimming summary whose speed is not distance / duration
C6_Witness ==
    /\ op = "show_training_info"
    /\ exc = "None"
    /\ training.cls = "Swimming"
    /\ info.speed = I(1)
    /\ info.distance = Rat(9936, 10000)
    /\ info.speed # RDiv(info.distance, training.duration)

WalkingSpeed(t) == RDiv(RDiv(RMul(t.action, Rat(65, 100)), I(1000)), t.duration)

\* C7: for a SportsWalking workout with duration > 0 and height > 0,
\* calories = (0.035 x weight + floor(speed^2 / height) x 0.029 x weight)
\* x duration x 60 with speed = action x 0.65 / 1000 / duration, the square
\* taken before the floor division; when speed^2 < height the speed term is
\* zero (157.5 for action 9000, duration 1, weight 75, height 180).
C7_WalkingCalories ==
    (/\ op \in {"show_training_info", "get_spent_calories"}
     /\ training.cls = "SportsWalking"
     /\ Positive(training.duration)
     /\ Positive(training.height))
       => LET sq == RMul(WalkingSpeed(training), WalkingSpeed(training))
              k  == FloorOf(RDiv(sq, training.height))
              w  == training.weight
          IN  /\ exc = "None"
              /\ ReportedCalories
                   = RMul(RMul(RAdd(RMul(Rat(35, 1000), w),
                                    RMul(RMul(I(k), Rat(29, 1000)), w)),
                               training.duration), I(60))
              /\ RLess(sq, training.height) =>
                   ReportedCalories
                     = RMul(RMul(RMul(Rat(35, 1000), w), training.duration),
                            I(60))
              /\ training = [cls |-> "SportsWalking", action |-> I(9000),
                             duration |-> I(1), weight |-> I(75),
                             height |-> I(180)]
                   => ReportedCalories = Rat(1575, 10)

\* a walk fast enough for a non-zero speed term: 19.5 km/h, 380.25 // 180 = 2
C7_Witness ==
    /\ op = "show_training_info"
    /\ exc = "None"
    /\ training = [cls |-> "SportsWalking", action |-> I(15000),
                   duration |-> Rat(1, 2), weight |-> I(75),
                   height |-> I(180)]
    /\ info.calories = Rat(20925, 100)

\* C8: for a Running workout with duration > 0, distance = action x 0.65 /
\* 1000, speed = distance / duration and calories = (18 x speed - 20) x
\* weight / 1000 x duration x 60 (distance 9.75 and calories 699.75 for
\* action 15000, duration 1, weight 75).
C8_RunningFormulas ==
    (/\ op = "show_training_info"
     /\ training.cls = "Running"
     /\ Positive(training.duration))
       => /\ exc = "None"
          /\ info.training_type = "Running"
          /\ info.duration = training.duration
          /\ RMul(info.distance, I(100000)) = RMul(training.action, I(65))
          /\ RMul(info.speed, training.duration) = info.distance
          /\ info.calories
               = RMul(RMul(RDiv(RMul(RSub(RMul(I(18), info.speed), I(20)),
                                     training.weight), I(1000)),
                           training.duration), I(60))
          /\ training = [cls |-> "Running", action |-> I(15000),
                         duration |-> I(1), weight |-> I(75)]
               => /\ info.distance = Rat(975, 100)
                  /\ info.calories = Rat(69975, 100)

\* the summary of the run of 15000 steps in one hour at 75 kg
C8_Witness ==
    /\ op = "show_training_info"
    /\ exc = "None"
    /\ training = [cls |-> "Running", action |-> I(15000),
                   duration |-> I(1), weight |-> I(75)]
    /\ info.calories = Rat(69975, 100)

(***************************************************************************)
(* Purity                                                                  *)
(***************************************************************************)
MethodOps == {"get_distance", "get_mean_speed", "get_spent_calories",
              "show_training_info", "get_message"}

\* C9: no call of get_distance, get_mean_speed, get_spent_calories,
\* show_training_info or get_message changes the calculator's fields or the
\* summary's fields; a further show_training_info on the calculator yields a
\* summary with the same fields and a further get_message on the summary
\* yields the same text.
C9_Pure ==
    [][/\ op' \in MethodOps => training' = training
       /\ op' \in MethodOps \ {"show_training_info"} => info' = info
       /\ (op' = "show_training_info" /\ info # NoInfo)
             => (exc' = "None" /\ info' = info)
       /\ (op' = "get_message" /\ text # "") => text' = text]_vars

\* show_training_info called again after the summary was formatted
C9_Witness ==
    /\ op = "show_training_info"
    /\ exc = "None"
    /\ info # NoInfo
    /\ text # ""
    /\ text = get_message(info)

(***************************************************************************)
(* The driver                                                              *)
(***************************************************************************)
\* a package that fails: unknown code, wrong argument count or zero duration
Fails(p) ==
    \/ p[1] \notin KnownCodes
    \/ Len(p[2]) # ArityOfCode(p[1])
    \/ IsZero(p[2][2])

\* the line a package that does not fail is printed as
LineOf(p) ==
    get_message(show_training_info(read_package(p[1], p[2]).val).val)

Failing == { j \in 1..Len(packages) : Fails(packages[j]) }

Terminated == pc \in {"done", "crashed"}

\* C2 as stated: a failure is terminal for its package only; when the run is
\* over, every package that does not fail has been printed.
C2_Original ==
    Terminated =>
        \A j \in 1..Len(packages) :
            ~Fails(packages[j]) =>
                \E k \in 1..Len(out) : out[k] = LineOf(packages[j])

\* C2 amended: when a package of the batch fails (unknown code, wrong
\* argument count or zero duration) the uncaught exception ends the run at
\* that package: the packages before it have been dispatched, computed and
\* printed in order, and no later package is dispatched, computed or printed.
C2_FailureEndsTheRun ==
    /\ \A j \in Failing : idx <= j /\ Len(out) < j
    /\ pc = "crashed" =>
          /\ idx \in Failing
          /\ exc \in {"KeyError", "TypeError", "ZeroDivisionError"}
          /\ out = [j \in 1..(idx - 1) |-> LineOf(packages[j])]
    /\ pc = "done" =>
          /\ Failing = {}
          /\ out = [j \in 1..Len(packages) |-> LineOf(packages[j])]

\* the run ended at a failing package with a good package printed before it
\* and a good package left behind it
C2_Witness ==
    /\ pc = "crashed"
    /\ idx = 2
    /\ Len(packages) = 3
    /\ Len(out) = 1
    /\ ~Fails(packages[3])

ExampleOutput ==
    << "Tip trenirovki: Swimming; Dlitelnost: 1.000 ch.; Distantsiya: 0.994 km; Sr. skorost: 1.000 km/ch; Potracheno kkal: 336.000.",
       "Tip trenirovki: Running; Dlitelnost: 1.000 ch.; Distantsiya: 9.750 km; Sr. skorost: 9.750 km/ch; Potracheno kkal: 699.750.",
       "Tip trenirovki: SportsWalking; Dlitelnost: 1.000 ch.; Distantsiya: 5.850 km; Sr. skorost: 5.850 km/ch; Potracheno kkal: 157.500." >>

\* C10: the driver run on the three example packages never fails, prints
\* nothing but the Swimming, Running and SportsWalking lines in that order,
\* and ends with exactly these three lines printed.
C10_ExampleRun ==
    /\ [](packages = ExamplePackages =>
              /\ pc # "crashed"
              /\ Len(out) <= 3
              /\ \A k \in 1..Len(out) : out[k] = ExampleOutput[k])
    /\ <>[](packages = ExamplePackages =>
                (pc = "done" /\ exc = "None" /\ out = ExampleOutput))

\* the example run at its end
C10_Witness ==
    /\ packages = ExamplePackages
    /\ pc = "done"
    /\ out = ExampleOutput

====
